---- MODULE Spec2Model ----
(***************************************************************************)
(* Signal Scout ranking pipeline: deduplication, per-source capping and    *)
(* diversity-constrained shortlist selection, modelled from                *)
(* agent/signal_scout/dedupe.py and agent/signal_scout/cli.py.             *)
(***************************************************************************)
EXTENDS Integers, Sequences, FiniteSets, TLC

VARIABLES
    pc,            \* position of the operation under analysis
    rows,          \* shortlist: the scored rows handed in
    cfg,           \* shortlist: daily_top_n / ensure_archetype_diversity / ensure_mission_coverage
    rows_sorted,   \* shortlist: rows sorted by total_score descending
    out,           \* shortlist: accepted rows, in order of acceptance
    used,          \* shortlist: source_urls already accepted
    have_arch,     \* shortlist: archetypes accepted by the diversity phase
    collected,     \* dedupe: the batch of candidate items of the run
    items,         \* dedupe / cap_per_source: the list handed to the call
    idx,           \* dedupe: position of the for loop in items
    seen_urls,     \* dedupe: URLs of the accepted items
    seen_titles,   \* dedupe: titles of the accepted items
    seen_hashes,   \* dedupe: fingerprints of the accepted items
    uniq,          \* dedupe: accepted items, in input order
    pass,          \* dedupe: 1 on the collected items, 2 on dedupe's own output
    cap,           \* cap_per_source: the per-source cap
    capped,        \* cap_per_source: the items retained
    env,           \* the build and the judge service: pandas, API key, raw reply
    results,       \* outcome of each classification request, in request order
    cache,         \* lru_cache of classify_archetype_llm: triples, oldest first
    calls          \* triples handed to the external judge, in call order

slVars == <<rows, cfg, rows_sorted, out, used, have_arch>>
ddVars == <<collected, items, idx, seen_urls, seen_titles, seen_hashes, uniq, pass>>
capVars == <<cap, capped>>
jVars == <<env, results, cache, calls>>
vars == <<pc, slVars, ddVars, capVars, jVars>>

----------------------------------------------------------------------------
(* Bounds of the model *)

MaxRows == 4        \* longest list of rows handed to shortlist
MaxTopN == 3        \* largest daily_top_n
MaxDiversity == 2   \* largest ensure_archetype_diversity
MaxItems == 4       \* longest list of items handed to dedupe
MaxCapItems == 4    \* longest list of items handed to cap_per_source
MaxCap == 2         \* largest per-source cap

----------------------------------------------------------------------------
(* Generic helpers *)

Range(s) == {s[i] : i \in 1..Len(s)}

\* no build and no judge service take part in the operation
NoEnv ==
    [pandas |-> FALSE, api_key |-> FALSE,
     reply |-> [raises |-> TRUE, parses |-> FALSE, label |-> "", confidence |-> 0]]

Min2(a, b) == IF a <= b THEN a ELSE b

\* All sequences of pairwise different elements of S of length <= n.
RECURSIVE DistinctSeqs(_, _)
DistinctSeqs(S, n) ==
    IF n = 0 THEN {<<>>}
    ELSE LET prev == DistinctSeqs(S, n - 1)
         IN  prev \cup UNION {{Append(s, x) : x \in S \ Range(s)} :
                              s \in {p \in prev : Len(p) = n - 1}}

----------------------------------------------------------------------------
(* Shortlist selector: cli.py shortlist *)

MissionOrder == <<"ASF", "AHL", "AFS">>

Row(m, a, s, u) ==
    [mission_links |-> m, archetype |-> a, total_score |-> s, source_url |-> u]

\* Sample scored rows (total_score in hundredths).  They include rows that
\* share a source_url while differing in archetype and mission, and rows
\* with equal total_score.
SampleRows ==
    { Row("ASF", "shape_of_things", 900, "u1"),
      Row("AHL", "canary",          850, "u2"),
      Row("AFS", "outlier",         850, "u3"),
      Row("ASF", "canary",          850, "u4"),
      Row("AHL", "canary",          900, "u1"),
      Row("ASF", "shape_of_things", 750, "u5"),
      Row("AFS", "shape_of_things", 800, "u2") }

\* an insertion that puts a row in front of the rows of equal score
RECURSIVE InsertByScoreTiesFirst(_, _)
InsertByScoreTiesFirst(r, s) ==
    IF s = <<>> THEN <<r>>
    ELSE IF Head(s).total_score > r.total_score
         THEN <<Head(s)>> \o InsertByScoreTiesFirst(r, Tail(s))
         ELSE <<r>> \o s

\* sorted(rows, key=total_score, reverse=True): stable, equal scores keep
\* their input order.
RECURSIVE InsertByScore(_, _)
InsertByScore(r, s) ==
    IF s = <<>> THEN <<r>>
    ELSE IF Head(s).total_score >= r.total_score
         THEN <<Head(s)>> \o InsertByScore(r, Tail(s))
         ELSE <<r>> \o s

RECURSIVE SortedByScore(_)
SortedByScore(rs) ==
    IF rs = <<>> THEN <<>>
    ELSE InsertByScore(rs[Len(rs)], SortedByScore(SubSeq(rs, 1, Len(rs) - 1)))

\* the diversity test left out: every unused row is accepted
RECURSIVE DiversityLoopNoArchCheck(_, _, _, _)
DiversityLoopNoArchCheck(srt, c, i, st) ==
    IF i > Len(srt) THEN st
    ELSE IF Len(st.out) >= c.daily_top_n THEN st
    ELSE LET r == srt[i] IN
         IF r.source_url \in st.used THEN DiversityLoopNoArchCheck(srt, c, i + 1, st)
         ELSE DiversityLoopNoArchCheck(srt, c, i + 1,
                  [out |-> Append(st.out, r),
                   used |-> st.used \cup {r.source_url},
                   have_arch |-> st.have_arch \cup {r.archetype}])

\* phase 1 loop, from position i of the sorted rows
RECURSIVE DiversityLoop(_, _, _, _)
DiversityLoop(srt, c, i, st) ==
    IF i > Len(srt) THEN st
    ELSE IF Len(st.out) >= c.daily_top_n THEN st
    ELSE LET r == srt[i] IN
         IF r.source_url \in st.used THEN DiversityLoop(srt, c, i + 1, st)
         ELSE IF /\ Cardinality(st.have_arch) < c.ensure_archetype_diversity
                 /\ r.archetype \in st.have_arch
              THEN DiversityLoop(srt, c, i + 1, st)
         ELSE DiversityLoop(srt, c, i + 1,
                  [out |-> Append(st.out, r),
                   used |-> st.used \cup {r.source_url},
                   have_arch |-> st.have_arch \cup {r.archetype}])

\* the candidate is looked up without regard to the used URLs
FirstCandidateAnyUrl(srt, m, usd) ==
    LET free == {i \in 1..Len(srt) : srt[i].mission_links = m}
    IN  IF free = {} THEN <<>>
        ELSE <<srt[CHOOSE i \in free : \A j \in free : i <= j]>>

\* next(x for x in rows_sorted if mission == m and url not in used, None)
FirstCandidate(srt, m, usd) ==
    LET free == {i \in 1..Len(srt) :
                    srt[i].mission_links = m /\ srt[i].source_url \notin usd}
    IN  IF free = {} THEN <<>>
        ELSE <<srt[CHOOSE i \in free : \A j \in free : i <= j]>>

\* the loop stops at the first mission already present instead of moving on
RECURSIVE CoverageLoopStopAtPresent(_, _, _, _)
CoverageLoopStopAtPresent(srt, c, k, st) ==
    IF k > Len(MissionOrder) THEN st
    ELSE IF Len(st.out) >= c.daily_top_n THEN st
    ELSE LET m == MissionOrder[k] IN
         IF m \in st.missions_present THEN st
         ELSE LET cand == FirstCandidate(srt, m, st.used) IN
              IF cand = <<>> THEN CoverageLoopStopAtPresent(srt, c, k + 1, st)
              ELSE CoverageLoopStopAtPresent(srt, c, k + 1,
                       [out |-> Append(st.out, cand[1]),
                        used |-> st.used \cup {cand[1].source_url},
                        missions_present |-> st.missions_present \cup {m}])

\* phase 2 loop over the three missions, from position k of MissionOrder
RECURSIVE CoverageLoop(_, _, _, _)
CoverageLoop(srt, c, k, st) ==
    IF k > Len(MissionOrder) THEN st
    ELSE IF Len(st.out) >= c.daily_top_n THEN st
    ELSE LET m == MissionOrder[k] IN
         IF m \in st.missions_present THEN CoverageLoop(srt, c, k + 1, st)
         ELSE LET cand == FirstCandidate(srt, m, st.used) IN
              IF cand = <<>> THEN CoverageLoop(srt, c, k + 1, st)
              ELSE CoverageLoop(srt, c, k + 1,
                       [out |-> Append(st.out, cand[1]),
                        used |-> st.used \cup {cand[1].source_url},
                        missions_present |-> st.missions_present \cup {m}])

\* the fill loop without its length test
RECURSIVE FillLoopNoBreak(_, _, _, _)
FillLoopNoBreak(srt, c, i, st) ==
    IF i > Len(srt) THEN st
    ELSE LET r == srt[i] IN
         IF r.source_url \in st.used THEN FillLoopNoBreak(srt, c, i + 1, st)
         ELSE FillLoopNoBreak(srt, c, i + 1,
                  [out |-> Append(st.out, r),
                   used |-> st.used \cup {r.source_url}])

\* phase 3 loop, from position i of the sorted rows
RECURSIVE FillLoop(_, _, _, _)
FillLoop(srt, c, i, st) ==
    IF i > Len(srt) THEN st
    ELSE IF Len(st.out) >= c.daily_top_n THEN st
    ELSE LET r == srt[i] IN
         IF r.source_url \in st.used THEN FillLoop(srt, c, i + 1, st)
         ELSE FillLoop(srt, c, i + 1,
                  [out |-> Append(st.out, r),
                   used |-> st.used \cup {r.source_url}])

InitShortlist ==
    /\ pc = "shortlist"
    /\ rows \in DistinctSeqs(SampleRows, MaxRows)
    /\ cfg \in [daily_top_n : 0..MaxTopN,
                ensure_archetype_diversity : 0..MaxDiversity,
                ensure_mission_coverage : BOOLEAN]
    /\ rows_sorted = <<>>
    /\ out = <<>>
    /\ used = {}
    /\ have_arch = {}
    /\ collected = <<>>
    /\ items = <<>>
    /\ idx = 0
    /\ seen_urls = {}
    /\ seen_titles = <<>>
    /\ seen_hashes = <<>>
    /\ uniq = <<>>
    /\ pass = 0
    /\ cap = 0
    /\ capped = <<>>
    /\ env = NoEnv
    /\ results = <<>>
    /\ cache = <<>>
    /\ calls = <<>>

\* cli.py 80-88: sort, then the archetype diversity phase
DiversityPhase ==
    /\ pc = "shortlist"
    /\ LET srt == SortedByScore(rows)
           st  == DiversityLoop(srt, cfg, 1,
                                [out |-> <<>>, used |-> {}, have_arch |-> {}])
       IN  /\ rows_sorted' = srt
           /\ out' = st.out
           /\ used' = st.used
           /\ have_arch' = st.have_arch
    /\ pc' = "coverage"
    /\ UNCHANGED <<rows, cfg, ddVars, capVars, jVars>>

\* cli.py 89-97: the mission coverage phase
CoveragePhase ==
    /\ pc = "coverage"
    /\ IF cfg.ensure_mission_coverage
       THEN LET st == CoverageLoop(rows_sorted, cfg, 1,
                         [out |-> out, used |-> used,
                          missions_present |->
                              {out[i].mission_links : i \in 1..Len(out)}])
            IN  /\ out' = st.out
                /\ used' = st.used
       ELSE UNCHANGED <<out, used>>
    /\ pc' = "fill"
    /\ UNCHANGED <<rows, cfg, rows_sorted, have_arch, ddVars, capVars, jVars>>

\* cli.py 98-103: the fill phase and the return
FillPhase ==
    /\ pc = "fill"
    /\ LET st == FillLoop(rows_sorted, cfg, 1, [out |-> out, used |-> used])
       IN  /\ out' = st.out
           /\ used' = st.used
    /\ pc' = "returned"
    /\ UNCHANGED <<rows, cfg, rows_sorted, have_arch, ddVars, capVars, jVars>>

NextShortlist == DiversityPhase \/ CoveragePhase \/ FillPhase

SpecShortlist == InitShortlist /\ [][NextShortlist]_vars

----------------------------------------------------------------------------
(* Properties of the shortlist selector *)

ArchetypesOf(rs) == {rs[i].archetype : i \in 1..Len(rs)}
MissionsOf(rs) == {rs[i].mission_links : i \in 1..Len(rs)}
UrlsOf(rs) == {rs[i].source_url : i \in 1..Len(rs)}
DistinctUrls(rs) == \A i, j \in 1..Len(rs) : i # j => rs[i].source_url # rs[j].source_url
AllMissions == Range(MissionOrder)

\* what the diversity phase alone accepts from the sorted rows
AfterDiversity ==
    DiversityLoop(rows_sorted, cfg, 1, [out |-> <<>>, used |-> {}, have_arch |-> {}]).out

\* C1: after every phase (diversity, coverage, fill) the accepted list has at
\* most daily_top_n rows; it may be shorter, never longer.
C1_AtMostTopN == Len(out) <= cfg.daily_top_n

\* C1 witness: a returned shortlist that is full although the rows carry more
\* distinct URLs than daily_top_n, and one that is shorter is also possible.
C1_Witness ==
    /\ pc = "returned"
    /\ cfg.daily_top_n >= 1
    /\ Len(out) = cfg.daily_top_n
    /\ Cardinality(UrlsOf(rows)) > cfg.daily_top_n

\* C2: no two rows of the accepted list share a source_url, in every phase,
\* also when the input rows repeat a source_url.
C2_NoDuplicateUrl == DistinctUrls(out)

\* C2 witness: the input holds two rows with one source_url and different
\* archetypes, and the returned shortlist holds a row with that source_url.
C2_Witness ==
    /\ pc = "returned"
    /\ \E i, j \in 1..Len(rows) :
          /\ i # j
          /\ rows[i].source_url = rows[j].source_url
          /\ rows[i].archetype # rows[j].archetype
          /\ rows[i].source_url \in UrlsOf(out)
    /\ Len(out) >= 2

DiversityMet ==
    /\ Cardinality(ArchetypesOf(out)) >= cfg.ensure_archetype_diversity
    /\ Len(out) >= cfg.ensure_archetype_diversity
    /\ \A i, j \in 1..cfg.ensure_archetype_diversity :
          i # j => out[i].archetype # out[j].archetype

\* C3 as stated: if daily_top_n >= T and the pool has at least T distinct
\* archetypes, the shortlist has at least T distinct archetypes and its first
\* T rows have pairwise distinct archetypes.
C3_Original ==
    (/\ pc = "returned"
     /\ cfg.daily_top_n >= cfg.ensure_archetype_diversity
     /\ Cardinality(ArchetypesOf(rows)) >= cfg.ensure_archetype_diversity)
    => DiversityMet

\* C3 amended: the same guarantee for pools whose rows have pairwise distinct
\* source_urls.
C3_DiversityDistinctUrls ==
    (/\ pc = "returned"
     /\ cfg.daily_top_n >= cfg.ensure_archetype_diversity
     /\ Cardinality(ArchetypesOf(rows)) >= cfg.ensure_archetype_diversity
     /\ DistinctUrls(rows))
    => DiversityMet

\* C3 witness: distinct URLs, target 2, and the two best rows share an
\* archetype, so the diversity phase had to skip a row to meet the target.
C3_Witness ==
    /\ pc = "returned"
    /\ cfg.ensure_archetype_diversity = 2
    /\ cfg.daily_top_n >= 2
    /\ DistinctUrls(rows)
    /\ Len(rows_sorted) >= 3
    /\ rows_sorted[1].archetype = rows_sorted[2].archetype
    /\ Cardinality(ArchetypesOf(rows)) >= 2
    /\ out[1].archetype # out[2].archetype

\* C4 as stated: with coverage enabled and a pool holding a row of each of
\* ASF, AHL, AFS, the shortlist holds all three missions or fewer than 3 rows.
C4_Original ==
    (/\ pc = "returned"
     /\ cfg.ensure_mission_coverage
     /\ AllMissions \subseteq MissionsOf(rows))
    => \/ AllMissions \subseteq MissionsOf(out)
       \/ Len(out) < 3

\* C4 amended: once the coverage phase has run, the accepted list holds all
\* three missions, or it is full (daily_top_n rows), or every pool row of a
\* missing mission shares its source_url with an accepted row.
C4_CoverageOrFull ==
    (/\ pc \in {"fill", "returned"}
     /\ cfg.ensure_mission_coverage
     /\ AllMissions \subseteq MissionsOf(rows))
    => \/ AllMissions \subseteq MissionsOf(out)
       \/ Len(out) = cfg.daily_top_n
       \/ \A i \in 1..Len(rows) :
             rows[i].mission_links \in AllMissions \ MissionsOf(out)
                 => rows[i].source_url \in used

\* C4 witness: the diversity phase left a mission out and the coverage phase
\* supplied it.
C4_Witness ==
    /\ pc = "fill"
    /\ cfg.ensure_mission_coverage
    /\ AllMissions \subseteq MissionsOf(rows)
    /\ ~(AllMissions \subseteq MissionsOf(AfterDiversity))
    /\ AllMissions \subseteq MissionsOf(out)

----------------------------------------------------------------------------
(* Deduplicator: dedupe.py dedupe *)

TitleCutoff == 92       \* fuzz.token_set_ratio(title, t) > 92
NearHash == 65536       \* abs(sh - h) < (1 << 16)

Abs(n) == IF n < 0 THEN 0 - n ELSE n

\* A title is modelled by its set of whitespace-separated tokens; the sample
\* words use pairwise disjoint letters, so two different words share no
\* character.
RECURSIVE SumLen(_)
SumLen(S) ==
    IF S = {} THEN 0
    ELSE LET w == CHOOSE x \in S : TRUE IN Len(w) + SumLen(S \ {w})

\* len(" ".join(sorted(S)))
JoinedLen(S) == IF S = {} THEN 0 ELSE SumLen(S) + Cardinality(S) - 1

\* A similarity score is kept exact, as the fraction <<numerator, denominator>>.
NormDistance(dist, lensum) ==
    IF lensum = 0 THEN <<100, 1>> ELSE <<100 * (lensum - dist), lensum>>

RatioGT(r, k) == r[1] > k * r[2]
RatioMax(a, b) == IF a[1] * b[2] >= b[1] * a[2] THEN a ELSE b

\* rapidfuzz fuzz.token_set_ratio on two token sets.  The Indel distance of
\* the two joined differences is len + len - 2 * LCS, and with words of
\* disjoint letters the longest common subsequence is made of the separating
\* blanks only.
TokenSetRatio(t1, t2) ==
    IF t1 = {} \/ t2 = {} THEN <<0, 1>>
    ELSE LET sect == t1 \cap t2
             dab  == t1 \ t2
             dba  == t2 \ t1
         IN  IF sect # {} /\ (dab = {} \/ dba = {}) THEN <<100, 1>>
             ELSE LET ab_len   == JoinedLen(dab)
                      ba_len   == JoinedLen(dba)
                      sect_len == JoinedLen(sect)
                      sep      == IF sect_len # 0 THEN 1 ELSE 0
                      sect_ab_len == sect_len + sep + ab_len
                      sect_ba_len == sect_len + sep + ba_len
                      lcs  == Min2(Cardinality(dab), Cardinality(dba)) - 1
                      dist == ab_len + ba_len - 2 * lcs
                      result == NormDistance(dist, sect_ab_len + sect_ba_len)
                  IN  IF sect_len = 0 THEN result
                      ELSE RatioMax(result,
                             RatioMax(NormDistance(sep + ab_len, sect_len + sect_ab_len),
                                      NormDistance(sep + ba_len, sect_len + sect_ba_len)))

\* summary is "str" for a string, "none" for None, "nonstr" for a value of
\* another type and "missing" for an item without the key
Item(u, t, h, e) ==
    [url |-> u, title |-> t, sh |-> h, en |-> e, summary |-> "str"]

MalformedItem(u, t, h, s) ==
    [url |-> u, title |-> t, sh |-> h, en |-> TRUE, summary |-> s]

\* dedupe.py 21 and 12: it["summary"] raises KeyError when the key is
\* missing, and (title or "") + " " + (summary or "") raises TypeError for
\* a summary that is neither a string nor falsy; None is replaced by ""
FingerprintRaises(it) == it.summary \in {"missing", "nonstr"}

\* simhash_text(title, summary): the 64-bit Simhash of the item's text, a
\* deterministic function of the text, carried by the item.
simhash_text(it) == it.sh

\* is_english(title + " " + summary): the language detector's verdict on the
\* item's text (a detector failure counts as English), carried by the item.
is_english(it) == it.en

TitleA == {"a", "bbbb", "cccccccc", "dddddd", "eeeeeeee"}
TitleB == {"bbbb", "cccccccc", "dddddd", "ffffff"}

\* Sample candidate items: repeated URLs, titles extended by one word, titles
\* differing in one short word, fingerprints one apart, and non-English text.
SampleItems ==
    { Item("u1", TitleA,                1048576, TRUE),
      Item("u2", TitleA \cup {"fffff"}, 2097152, TRUE),
      Item("u2", {"gg", "hhh"},         3145728, TRUE),
      Item("u3", {"iiii", "jj"},        1048577, TRUE),
      Item("u4", {"kkk", "lllll"},      4194304, FALSE),
      Item("u4", {"mm", "nnnn"},        5242880, TRUE),
      Item("u1", {"oooo", "ppp"},       6291456, TRUE),
      Item("u5", TitleA \cup {"fffff"}, 7340032, FALSE),
      Item("u6", TitleB \cup {"a"},     8388608, TRUE),
      Item("u7", TitleB \cup {"q"},     9437184, TRUE) }

SimilarHashOnly(it, titles, hashes) ==
    \E k \in 1..Len(hashes) : Abs(simhash_text(it) - hashes[k]) < NearHash

SimilarTitleOnly(it, titles, hashes) ==
    \E k \in 1..Len(titles) : RatioGT(TokenSetRatio(it.title, titles[k]), TitleCutoff)

\* dedupe.py 22
Similar(it, titles, hashes) ==
    \/ \E k \in 1..Len(titles) : RatioGT(TokenSetRatio(it.title, titles[k]), TitleCutoff)
    \/ \E k \in 1..Len(hashes) : Abs(simhash_text(it) - hashes[k]) < NearHash

Accepted(st, it) ==
    [seen_urls   |-> st.seen_urls \cup {it.url},
     seen_titles |-> Append(st.seen_titles, it.title),
     seen_hashes |-> Append(st.seen_hashes, simhash_text(it)),
     uniq        |-> Append(st.uniq, it)]

\* the URL rule left out
DedupeBodyNoUrlRule(st, it) ==
    IF Similar(it, st.seen_titles, st.seen_hashes) THEN st
    ELSE IF ~is_english(it) THEN st
    ELSE Accepted(st, it)

\* every examined item is remembered and only the last one is compared
DedupeBodyAdjacent(st, it) ==
    LET last(s) == IF s = <<>> THEN <<>> ELSE <<s[Len(s)]>>
        noted == [st EXCEPT !.seen_titles = Append(@, it.title),
                            !.seen_hashes = Append(@, simhash_text(it))]
    IN  IF it.url \in st.seen_urls THEN noted
        ELSE IF Similar(it, last(st.seen_titles), last(st.seen_hashes)) THEN noted
        ELSE IF ~is_english(it) THEN noted
        ELSE [noted EXCEPT !.seen_urls = @ \cup {it.url}, !.uniq = Append(@, it)]

\* dedupe.py 18-27: the body of the for loop
DedupeBody(st, it) ==
    IF it.url \in st.seen_urls THEN st
    ELSE IF Similar(it, st.seen_titles, st.seen_hashes) THEN st
    ELSE IF ~is_english(it) THEN st
    ELSE Accepted(st, it)

SeenState ==
    [seen_urls |-> seen_urls, seen_titles |-> seen_titles,
     seen_hashes |-> seen_hashes, uniq |-> uniq]

ShortlistIdle ==
    /\ env = NoEnv
    /\ results = <<>>
    /\ cache = <<>>
    /\ calls = <<>>
    /\ rows = <<>>
    /\ cfg = [daily_top_n |-> 0, ensure_archetype_diversity |-> 0,
              ensure_mission_coverage |-> TRUE]
    /\ rows_sorted = <<>>
    /\ out = <<>>
    /\ used = {}
    /\ have_arch = {}

InitDedupe ==
    /\ pc = "dedupe"
    /\ collected \in DistinctSeqs(SampleItems, MaxItems)
    /\ items = collected
    /\ idx = 1
    /\ seen_urls = {}
    /\ seen_titles = <<>>
    /\ seen_hashes = <<>>
    /\ uniq = <<>>
    /\ pass = 1
    /\ cap = 0
    /\ capped = <<>>
    /\ ShortlistIdle

\* dedupe.py 18-21: the item's URL is new and its fingerprint cannot be taken
RaisesAt(i) ==
    /\ items[i].url \notin seen_urls
    /\ FingerprintRaises(items[i])

\* one iteration of the for loop of dedupe
DedupeStep ==
    /\ pc = "dedupe"
    /\ idx <= Len(items)
    /\ ~RaisesAt(idx)
    /\ LET st == DedupeBody(SeenState, items[idx])
       IN  /\ seen_urls' = st.seen_urls
           /\ seen_titles' = st.seen_titles
           /\ seen_hashes' = st.seen_hashes
           /\ uniq' = st.uniq
    /\ idx' = idx + 1
    /\ UNCHANGED <<pc, collected, items, pass, slVars, capVars, jVars>>

\* dedupe.py 28: return uniq
DedupeReturn ==
    /\ pc = "dedupe"
    /\ idx > Len(items)
    /\ pc' = "deduped"
    /\ UNCHANGED <<ddVars, slVars, capVars, jVars>>

\* the deduplicator is run again on its own output
DedupeAgain ==
    /\ pc = "deduped"
    /\ pass = 1
    /\ items' = uniq
    /\ idx' = 1
    /\ seen_urls' = {}
    /\ seen_titles' = <<>>
    /\ seen_hashes' = <<>>
    /\ uniq' = <<>>
    /\ pass' = 2
    /\ pc' = "dedupe"
    /\ UNCHANGED <<collected, slVars, capVars, jVars>>

\* dedupe.py 21: the exception of simhash_text or of it["summary"] is caught
\* nowhere in dedupe and leaves it; nothing is returned
DedupeRaise ==
    /\ pc = "dedupe"
    /\ idx <= Len(items)
    /\ RaisesAt(idx)
    /\ pc' = "raised"
    /\ UNCHANGED <<ddVars, slVars, capVars, jVars>>

NextDedupe == DedupeStep \/ DedupeReturn \/ DedupeAgain

SpecDedupe == InitDedupe /\ [][NextDedupe]_vars

\* Batches holding items without a summary key, with a None summary and
\* with a non-string summary next to well-formed items, whose fingerprints
\* 2^20, 2^20 + 1 and 2^20 + 2^16 differ in one bit from the first.
SampleBatchItems ==
    { Item("u1", TitleA,                    1048576, TRUE),
      Item("u3", {"iiii", "jj"},            1048577, TRUE),
      Item("u4", {"kkk", "lllll"},          4194304, FALSE),
      Item("u10", {"xx", "yyy"},           1114112, TRUE),
      MalformedItem("u8", {"rr", "sss"},    10485760, "none"),
      MalformedItem("u9", {"tt", "uuu"},    0, "missing"),
      MalformedItem("u1", {"vv", "www"},    0, "nonstr") }

InitDedupeBatch ==
    /\ pc = "dedupe"
    /\ collected \in DistinctSeqs(SampleBatchItems, MaxItems)
    /\ items = collected
    /\ idx = 1
    /\ seen_urls = {}
    /\ seen_titles = <<>>
    /\ seen_hashes = <<>>
    /\ uniq = <<>>
    /\ pass = 1
    /\ cap = 0
    /\ capped = <<>>
    /\ ShortlistIdle

NextDedupeBatch == DedupeStep \/ DedupeRaise \/ DedupeReturn

SpecDedupeBatch == InitDedupeBatch /\ [][NextDedupeBatch]_vars

----------------------------------------------------------------------------
(* Properties of the deduplicator *)

TitlesSimilar(a, b) == RatioGT(TokenSetRatio(a.title, b.title), TitleCutoff)
HashesNear(a, b) == Abs(simhash_text(a) - simhash_text(b)) < NearHash
Kept(it) == it \in Range(uniq)

\* items[j] passed the URL rule and was dropped by the near-duplicate rule:
\* it resembles an item accepted before it
DroppedAsSimilar(j) ==
    /\ ~Kept(items[j])
    /\ \A i \in 1..(j - 1) : Kept(items[i]) => items[i].url # items[j].url
    /\ \E i \in 1..(j - 1) :
          /\ Kept(items[i])
          /\ TitlesSimilar(items[j], items[i]) \/ HashesNear(items[j], items[i])

\* C5: no two accepted items share a URL, have titles with token-set
\* similarity above 92, or have fingerprints the fingerprint test judges near.
C5_PairwiseDissimilar ==
    \A i, j \in 1..Len(uniq) :
        i < j => /\ uniq[i].url # uniq[j].url
                 /\ ~TitlesSimilar(uniq[i], uniq[j])
                 /\ ~HashesNear(uniq[i], uniq[j])

\* C5 witness: a finished pass that kept two items and dropped one for its
\* title and another for its fingerprint.
C5_Witness ==
    /\ pc = "deduped"
    /\ pass = 1
    /\ Len(uniq) >= 2
    /\ \E j \in 1..Len(items) :
          /\ DroppedAsSimilar(j)
          /\ \E k \in 1..Len(uniq) : TitlesSimilar(items[j], uniq[k])
    /\ \E j \in 1..Len(items) :
          /\ DroppedAsSimilar(j)
          /\ \E k \in 1..Len(uniq) : HashesNear(items[j], uniq[k])

\* C6: dedupe applied to its own output returns that output unchanged, in
\* the same order.
C6_Idempotent == (pc = "deduped" /\ pass = 2) => uniq = items

\* C6 witness: the second pass has finished on an output from which the
\* first pass had removed items.
C6_Witness ==
    /\ pc = "deduped"
    /\ pass = 2
    /\ Len(items) >= 2
    /\ Len(items) < Len(collected)

\* C7 as stated: every item that comes after another item with the same URL
\* is absent from the output, also when that earlier item was itself dropped.
C7_Original ==
    (pc = "deduped" /\ pass = 1) =>
        \A i, j \in 1..Len(items) :
            (i < j /\ items[i].url = items[j].url) => ~Kept(items[j])

\* C7 amended: an item that comes after an accepted item with the same URL is
\* never in the output, and an accepted item is the first of its URL that was
\* not dropped by the near-duplicate or the language rule.
C7_FirstAcceptedWins ==
    (pc = "deduped" /\ pass = 1) =>
        \A i, j \in 1..Len(items) :
            (i < j /\ items[i].url = items[j].url) =>
                /\ Kept(items[i]) => ~Kept(items[j])
                /\ Kept(items[j]) => (~is_english(items[i]) \/ DroppedAsSimilar(i))

\* C7 witness: an English item with a title and fingerprint unlike every
\* accepted one was dropped because an accepted earlier item has its URL.
C7_Witness ==
    /\ pc = "deduped"
    /\ pass = 1
    /\ \E i, j \in 1..Len(items) :
          /\ i < j
          /\ items[i].url = items[j].url
          /\ Kept(items[i])
          /\ ~Kept(items[j])
          /\ is_english(items[j])
          /\ \A k \in 1..Len(uniq) :
                ~TitlesSimilar(items[j], uniq[k]) /\ ~HashesNear(items[j], uniq[k])

TwoSimilarTitles ==
    /\ pc = "deduped"
    /\ pass = 1
    /\ Len(items) = 2
    /\ items[1].url # items[2].url
    /\ TitlesSimilar(items[1], items[2])

\* C8 as stated: two items with different URLs and titles of similarity above
\* 92 yield exactly one item, the first of the two.
C8_Original == TwoSimilarTitles => uniq = <<items[1]>>

\* C8 amended: the same, when the first of the two items passes the language
\* filter.
C8_FirstEnglishSurvives ==
    (TwoSimilarTitles /\ is_english(items[1])) => uniq = <<items[1]>>

\* C8 witness: the second title extends the first by one word, both items are
\* English and their fingerprints are far apart.
C8_Witness ==
    /\ TwoSimilarTitles
    /\ items[1].title \subseteq items[2].title
    /\ Cardinality(items[2].title \ items[1].title) = 1
    /\ is_english(items[1])
    /\ is_english(items[2])
    /\ ~HashesNear(items[1], items[2])
    /\ uniq = <<items[1]>>

----------------------------------------------------------------------------
(* Per-source cap: dedupe.py cap_per_source *)

\* An item's date is the string d.isoformat() written by the collectors,
\* "YYYY-MM-DDTHH:MM:SS+HH:MM": local is the wall-clock part counted in hours,
\* off the UTC offset in hours.
Date(l, o) == [local |-> l, off |-> o]
CapItem(s, d, u) == [source |-> s, date |-> d, url |-> u]

\* The instant a date denotes, in hours UTC.
Utc(d) == d.local - d.off

\* Order of two date strings as Python compares str: the fixed-width
\* wall-clock part first, then the offset suffix, where "+" sorts before "-"
\* and the digits follow.
IsoKey(d) == <<d.local, IF d.off >= 0 THEN 0 ELSE 1, Abs(d.off)>>

StrGE(a, b) ==
    LET x == IsoKey(a)
        y == IsoKey(b)
    IN  \/ x[1] > y[1]
        \/ x[1] = y[1] /\ x[2] > y[2]
        \/ x[1] = y[1] /\ x[2] = y[2] /\ x[3] >= y[3]

\* sorted(items, key=date, reverse=True): stable
RECURSIVE InsertByDate(_, _)
InsertByDate(it, s) ==
    IF s = <<>> THEN <<it>>
    ELSE IF StrGE(Head(s).date, it.date)
         THEN <<Head(s)>> \o InsertByDate(it, Tail(s))
         ELSE <<it>> \o s

RECURSIVE SortedByDate(_)
SortedByDate(its) ==
    IF its = <<>> THEN <<>>
    ELSE InsertByDate(its[Len(its)], SortedByDate(SubSeq(its, 1, Len(its) - 1)))

CountOf(s, its) == Cardinality({k \in 1..Len(its) : its[k].source = s})

\* the bucket test lets one item too many through
RECURSIVE CapLoopOffByOne(_, _, _, _)
CapLoopOffByOne(srt, c, i, acc) ==
    IF i > Len(srt) THEN acc
    ELSE IF CountOf(srt[i].source, acc) > c THEN CapLoopOffByOne(srt, c, i + 1, acc)
    ELSE CapLoopOffByOne(srt, c, i + 1, Append(acc, srt[i]))

\* dedupe.py 33-38: buckets[s] is the number of items of source s in out
RECURSIVE CapLoop(_, _, _, _)
CapLoop(srt, c, i, acc) ==
    IF i > Len(srt) THEN acc
    ELSE IF CountOf(srt[i].source, acc) >= c THEN CapLoop(srt, c, i + 1, acc)
    ELSE CapLoop(srt, c, i + 1, Append(acc, srt[i]))

SampleCapItems ==
    { CapItem("BBC", Date(100, 0),     "u1"),
      CapItem("BBC", Date(99, 0 - 5),  "u2"),
      CapItem("BBC", Date(98, 0),      "u3"),
      CapItem("BBC", Date(100, 1),     "u4"),
      CapItem("NHS", Date(100, 0),     "u5"),
      CapItem("NHS", Date(97, 0),      "u6") }

InitCap ==
    /\ pc = "cap"
    /\ items \in DistinctSeqs(SampleCapItems, MaxCapItems)
    /\ cap \in 0..MaxCap
    /\ capped = <<>>
    /\ collected = <<>>
    /\ idx = 0
    /\ seen_urls = {}
    /\ seen_titles = <<>>
    /\ seen_hashes = <<>>
    /\ uniq = <<>>
    /\ pass = 0
    /\ ShortlistIdle

\* dedupe.py 30-39: cap_per_source(items, cap)
CapPerSource ==
    /\ pc = "cap"
    /\ capped' = CapLoop(SortedByDate(items), cap, 1, <<>>)
    /\ pc' = "capped"
    /\ UNCHANGED <<cap, ddVars, slVars, jVars>>

NextCap == CapPerSource

SpecCap == InitCap /\ [][NextCap]_vars

----------------------------------------------------------------------------
(* Properties of the per-source cap *)

SourcesOf(its) == {its[k].source : k \in 1..Len(its)}

\* C9: the output holds at most cap items of each source and is a
\* sub-collection of the input: every output item is an input item and none
\* occurs twice.
C9_CapInvariant ==
    pc = "capped" =>
        /\ \A s \in SourcesOf(items) : CountOf(s, capped) <= cap
        /\ Range(capped) \subseteq Range(items)
        /\ \A i, j \in 1..Len(capped) : i # j => capped[i] # capped[j]

\* C9 witness: a source with more than cap items was cut down to cap, next to
\* a second source.
C9_Witness ==
    /\ pc = "capped"
    /\ cap >= 1
    /\ \E s \in SourcesOf(items) : CountOf(s, items) > cap /\ CountOf(s, capped) = cap
    /\ Cardinality(SourcesOf(capped)) = 2

\* C10: for each source the cap most recent items are kept: min(cap, count)
\* items of the source are retained and no discarded item of a source is
\* chronologically newer than a retained item of that source, whatever the
\* UTC offsets of the dates.
C10_KeepsMostRecent ==
    pc = "capped" =>
        /\ \A s \in SourcesOf(items) : CountOf(s, capped) = Min2(cap, CountOf(s, items))
        /\ \A i, j \in 1..Len(items) :
              (/\ items[i].source = items[j].source
               /\ items[i] \in Range(capped)
               /\ items[j] \notin Range(capped))
              => Utc(items[j].date) <= Utc(items[i].date)

----------------------------------------------------------------------------
(* Archetype classification: the rule cascade of archetypes.py and the     *)
(* judge of llm_ensemble.py.  A text is the set of its lower-case words, a  *)
(* pattern group the set of words its alternation matches; scores are in    *)
(* hundredths (450 is 4.5) and confidences on the 0-1 scale in hundredths.  *)

MaxRequests == 3    \* longest sequence of classification requests

\* llm_ensemble.py 6-7
LABELS ==
    {"shape_of_things", "counter_intuitive", "canary",
     "insights_from_field", "outlier", "big_idea"}

\* cfg["archetype_patterns"], as shipped in ARCH_PATTERNS
ArchPatterns ==
    [canary |-> {"shortage", "backlash"},
     counter_intuitive |-> {"paradox"},
     insights_from_field |-> {"clinician"},
     outlier |-> {"unprecedented", "grassroots"},
     big_idea |-> {"commission", "roadmap"},
     shape_of_things |-> {"pilot", "uptake"}]

FieldSources == {"hansard", "gtr", "council", "nhs", "trust"}
OutlierWords == {"artist", "collective", "hack", "lawsuit", "strike", "grassroots"}
BigIdeaWords == {"framework", "roadmap", "manifesto", "agenda", "grand challenge"}
ShapeWords == {"deployment", "uptake", "orders", "capacity", "interoperability"}

\* the date string of an item: one that parses, with (run_dt - item_dt).days
\* as its age, or one that does not
Aged(n) == [parses |-> TRUE, age |-> n]
BadDate == [parses |-> FALSE, age |-> 0]

\* an item as build_rows and the classifiers read it
RItem(u, t, s, src, tier, d) ==
    [url |-> u, title |-> t, summary |-> s, source |-> src,
     tier |-> tier, date |-> d]

\* f"{title}. {summary}".lower()
Txt(it) == it.title \cup it.summary

any_pat(pats, txt) == pats \cap txt # {}

\* the cascade with canary tested after outlier
RulesOutlierFirst(it, patterns) ==
    LET txt == Txt(it)
    IN  IF any_pat(patterns.outlier, txt) \/ OutlierWords \cap txt # {}
        THEN <<"outlier", 400>>
        ELSE IF any_pat(patterns.canary, txt) THEN <<"canary", 450>>
        ELSE IF any_pat(patterns.counter_intuitive, txt)
        THEN <<"counter_intuitive", 400>>
        ELSE IF any_pat(patterns.insights_from_field, txt)
                \/ FieldSources \cap it.source # {}
        THEN <<"insights_from_field", 400>>
        ELSE IF any_pat(patterns.big_idea, txt) \/ BigIdeaWords \cap txt # {}
        THEN <<"big_idea", 350>>
        ELSE IF any_pat(patterns.shape_of_things, txt) \/ ShapeWords \cap txt # {}
        THEN <<"shape_of_things", 350>>
        ELSE <<"shape_of_things", 250>>

\* archetypes.py 5-18
classify_archetype_rules(it, patterns) ==
    LET txt == Txt(it)
    IN  IF any_pat(patterns.canary, txt) THEN <<"canary", 450>>
        ELSE IF any_pat(patterns.counter_intuitive, txt)
        THEN <<"counter_intuitive", 400>>
        ELSE IF any_pat(patterns.insights_from_field, txt)
                \/ FieldSources \cap it.source # {}
        THEN <<"insights_from_field", 400>>
        ELSE IF any_pat(patterns.outlier, txt) \/ OutlierWords \cap txt # {}
        THEN <<"outlier", 400>>
        ELSE IF any_pat(patterns.big_idea, txt) \/ BigIdeaWords \cap txt # {}
        THEN <<"big_idea", 350>>
        ELSE IF any_pat(patterns.shape_of_things, txt) \/ ShapeWords \cap txt # {}
        THEN <<"shape_of_things", 350>>
        ELSE <<"shape_of_things", 250>>

\* the reply every path of _openai_call falls back to
AbstainJson ==
    [raises |-> FALSE, parses |-> TRUE, label |-> "abstain", confidence |-> 0]

\* raw replies of the judge service: raises is an exception of the call,
\* parses FALSE a last line that is not a JSON object
SampleReplies ==
    { [raises |-> TRUE, parses |-> FALSE, label |-> "", confidence |-> 0],
      [raises |-> FALSE, parses |-> FALSE, label |-> "", confidence |-> 0],
      [raises |-> FALSE, parses |-> TRUE, label |-> "abstain", confidence |-> 0],
      [raises |-> FALSE, parses |-> TRUE, label |-> "canary", confidence |-> 60],
      [raises |-> FALSE, parses |-> TRUE, label |-> "outlier", confidence |-> 59],
      [raises |-> FALSE, parses |-> TRUE, label |-> "Canary", confidence |-> 90],
      [raises |-> FALSE, parses |-> TRUE, label |-> "big_idea", confidence |-> 700] }

\* llm_ensemble.py 20-35
openai_call(e) ==
    IF ~e.api_key THEN AbstainJson
    ELSE IF e.reply.raises THEN AbstainJson
    ELSE e.reply

Max2(a, b) == IF a >= b THEN a ELSE b

\* llm_ensemble.py 37-47
parse(raw) ==
    IF ~raw.parses THEN [label |-> "abstain", confidence |-> 0]
    ELSE IF raw.label \notin LABELS THEN [label |-> "abstain", confidence |-> 0]
    ELSE [label |-> raw.label, confidence |-> Max2(0, Min2(100, raw.confidence))]

\* llm_ensemble.py 9-17, 51: _PROMPT.format(...) reads the braces of the
\* JSON example in the template as a replacement field named '"label"',
\* which is no keyword argument of the call: str.format raises KeyError
PromptFormatRaises == TRUE

\* the triple classify_archetype_llm is memoized on
Triple(it) == <<it.title, it.summary, it.source>>

LruMax == 4096

\* functools.lru_cache: a hit moves the key to the young end
LruTouch(c, k) ==
    SelectSeq(c, LAMBDA x : x.key # k.key) \o <<k>>

\* functools.lru_cache: a new entry evicts the oldest one of a full cache
LruInsert(c, entry) ==
    IF Len(c) >= LruMax THEN Append(Tail(c), entry) ELSE Append(c, entry)

CacheKeys(c) == {c[i].key : i \in 1..Len(c)}

CacheEntry(c, k) == CHOOSE x \in Range(c) : x.key = k

\* llm_ensemble.py 49-54: classify_archetype_llm under its lru_cache.
\* st is [cache, calls]; the result carries the new cache and calls
classify_archetype_llm(st, it, e) ==
    LET k == Triple(it)
    IN  IF k \in CacheKeys(st.cache)
        THEN [raised |-> FALSE, label |-> CacheEntry(st.cache, k).label,
              confidence |-> CacheEntry(st.cache, k).confidence,
              hit |-> TRUE,
              cache |-> LruTouch(st.cache, CacheEntry(st.cache, k)),
              calls |-> st.calls]
        ELSE IF PromptFormatRaises
        THEN [raised |-> TRUE, label |-> "", confidence |-> 0, hit |-> FALSE,
              cache |-> st.cache, calls |-> st.calls]
        ELSE LET j == parse(openai_call(e))
             IN  [raised |-> FALSE, label |-> j.label,
                  confidence |-> j.confidence, hit |-> FALSE,
                  cache |-> LruInsert(st.cache,
                               [key |-> k, label |-> j.label,
                                confidence |-> j.confidence]),
                  calls |-> Append(st.calls, k)]

tau_rules == 70
tau_llm == 60

\* the rule threshold taken as exclusive
EnsembleStrictThreshold(st, it, rule_label, rule_fit01, e) ==
    IF rule_fit01 > tau_rules
    THEN [raised |-> FALSE, label |-> rule_label, fit |-> rule_fit01 * 5,
          used |-> "rules", hit |-> FALSE,
          cache |-> st.cache, calls |-> st.calls]
    ELSE LET l == classify_archetype_llm(st, it, e)
         IN  IF l.raised
             THEN [raised |-> TRUE, label |-> "", fit |-> 0,
                   used |-> "KeyError", hit |-> FALSE,
                   cache |-> l.cache, calls |-> l.calls]
             ELSE IF l.label \in LABELS /\ l.confidence >= tau_llm
             THEN [raised |-> FALSE, label |-> l.label,
                   fit |-> l.confidence * 5, used |-> "llm", hit |-> l.hit,
                   cache |-> l.cache, calls |-> l.calls]
             ELSE [raised |-> FALSE, label |-> rule_label,
                   fit |-> rule_fit01 * 5, used |-> "fallback", hit |-> l.hit,
                   cache |-> l.cache, calls |-> l.calls]

\* llm_ensemble.py 56-64: ensemble_archetype with its default thresholds.
\* rule_fit01 is rule_fit / 5.0; round(x * 5.0, 2) is exact on hundredths
ensemble_archetype(st, it, rule_label, rule_fit01, e) ==
    IF rule_fit01 >= tau_rules
    THEN [raised |-> FALSE, label |-> rule_label, fit |-> rule_fit01 * 5,
          used |-> "rules", hit |-> FALSE,
          cache |-> st.cache, calls |-> st.calls]
    ELSE LET l == classify_archetype_llm(st, it, e)
         IN  IF l.raised
             THEN [raised |-> TRUE, label |-> "", fit |-> 0,
                   used |-> "KeyError", hit |-> FALSE,
                   cache |-> l.cache, calls |-> l.calls]
             ELSE IF l.label \in LABELS /\ l.confidence >= tau_llm
             THEN [raised |-> FALSE, label |-> l.label,
                   fit |-> l.confidence * 5, used |-> "llm", hit |-> l.hit,
                   cache |-> l.cache, calls |-> l.calls]
             ELSE [raised |-> FALSE, label |-> rule_label,
                   fit |-> rule_fit01 * 5, used |-> "fallback", hit |-> l.hit,
                   cache |-> l.cache, calls |-> l.calls]

SampleRItems ==
    { RItem("u1", {"drug", "shortage"}, {"randomised", "patients"},
            {"bbc"}, "policy", Aged(0)),
      RItem("u2", {"grassroots", "shortage"}, {"food"},
            {"guardian"}, "trade", Aged(30)),
      RItem("u3", {"quarterly", "report"}, {},
            {"bbc"}, "blog", Aged(7)),
      RItem("u4", {"ward", "lessons"}, {"cohort"},
            {"nhs", "trust"}, "policy", BadDate),
      RItem("u5", {"roadmap"}, {"food", "diet"},
            {"gov"}, "academic", Aged(1)),
      RItem("u7", {"artist", "collective"}, {"housing"},
            {"guardian"}, "trade", Aged(0 - 1)),
      RItem("u8", {"pilot", "ward"}, {"uptake"},
            {"bbc"}, "policy", Aged(29)) }

\* the requests of the classification run: two of them match no group
JudgeItems ==
    { it \in SampleRItems : it.url \in {"u1", "u2", "u3", "u5"} }
    \cup { RItem("u6", {"artist", "strike"}, {"paradox"},
                 {"guardian"}, "trade", Aged(45)),
           RItem("u9", {"weekly", "notes"}, {}, {"bbc"}, "policy", Aged(3)) }

\* sequences of at most n members of S, repetitions allowed
SeqsUpTo(S, n) == UNION { [1..k -> S] : k \in 0..n }

\* the judge service of a run: no key, or a key and one kind of reply
SampleEnvs ==
    { [pandas |-> FALSE, api_key |-> FALSE, reply |-> AbstainJson] }
    \cup { [pandas |-> FALSE, api_key |-> TRUE, reply |-> r] : r \in SampleReplies }

DedupeIdle ==
    /\ collected = <<>>
    /\ seen_urls = {}
    /\ seen_titles = <<>>
    /\ seen_hashes = <<>>
    /\ uniq = <<>>
    /\ pass = 0

ShortlistCapIdle ==
    /\ rows_sorted = <<>>
    /\ out = <<>>
    /\ used = {}
    /\ have_arch = {}
    /\ cap = 0
    /\ capped = <<>>

InitJudge ==
    /\ pc = "classify"
    /\ items \in SeqsUpTo(JudgeItems, MaxRequests)
    /\ env \in SampleEnvs
    /\ idx = 1
    /\ results = <<>>
    /\ cache = <<>>
    /\ calls = <<>>
    /\ rows = <<>>
    /\ cfg = [archetype_patterns |-> ArchPatterns]
    /\ DedupeIdle
    /\ ShortlistCapIdle

\* cli.py 41-43: one classification request, the rule cascade and then the
\* ensemble; a request that raises is recorded and the next one is made
Classify ==
    /\ pc = "classify"
    /\ idx <= Len(items)
    /\ LET it   == items[idx]
           rule == classify_archetype_rules(it, cfg.archetype_patterns)
           r    == ensemble_archetype([cache |-> cache, calls |-> calls], it,
                                      rule[1], rule[2] \div 5, env)
       IN  /\ results' = Append(results,
                  [rule_label |-> rule[1], rule_fit |-> rule[2],
                   raised |-> r.raised, label |-> r.label, fit |-> r.fit,
                   used |-> r.used, hit |-> r.hit])
           /\ cache' = r.cache
           /\ calls' = r.calls
    /\ idx' = idx + 1
    /\ UNCHANGED <<pc, env, items, slVars, capVars, collected, seen_urls,
                   seen_titles, seen_hashes, uniq, pass>>

ClassifyDone ==
    /\ pc = "classify"
    /\ idx > Len(items)
    /\ pc' = "classified"
    /\ UNCHANGED <<slVars, ddVars, capVars, jVars>>

NextJudge == Classify \/ ClassifyDone

SpecJudge == InitJudge /\ [][NextJudge]_vars

----------------------------------------------------------------------------
(* Properties of the archetype classification *)

\* the priority order of the groups and their fixed base confidences
GroupOrder ==
    <<"canary", "counter_intuitive", "insights_from_field", "outlier",
      "big_idea", "shape_of_things">>

BaseConf ==
    [canary |-> 450, counter_intuitive |-> 400, insights_from_field |-> 400,
     outlier |-> 400, big_idea |-> 350, shape_of_things |-> 350]

\* the pattern or literal-keyword predicate of group g holds of item it
GroupMatches(g, it) ==
    \/ ArchPatterns[g] \cap Txt(it) # {}
    \/ g = "insights_from_field" /\ FieldSources \cap it.source # {}
    \/ g = "outlier" /\ OutlierWords \cap Txt(it) # {}
    \/ g = "big_idea" /\ BigIdeaWords \cap Txt(it) # {}
    \/ g = "shape_of_things" /\ ShapeWords \cap Txt(it) # {}

MatchingGroups(it) == {k \in 1..Len(GroupOrder) : GroupMatches(GroupOrder[k], it)}

\* the requests answered so far
Answered == 1..Len(results)

\* request i is sent past the rules: its rule confidence is below tau_rules
BelowRuleThreshold(i) == results[i].rule_fit \div 5 < tau_rules

\* what the judge service of the run answers, once fetched and parsed
JudgeAnswer == parse(openai_call(env))

JudgeValid == JudgeAnswer.label \in LABELS /\ JudgeAnswer.confidence >= tau_llm

\* C12: classify_archetype_rules returns the label and base confidence of
\* the first group of the priority order whose predicate matches, and
\* (shape_of_things, 2.5) when none matches; a text matching both a canary
\* and an outlier pattern is a canary.
C12_PriorityCascade ==
    pc \in {"classify", "classified"} =>
    \A i \in Answered :
        LET m == MatchingGroups(items[i])
        IN  /\ m = {} => /\ results[i].rule_label = "shape_of_things"
                         /\ results[i].rule_fit = 250
            /\ \A k \in m :
                  (\A j \in m : k <= j)
                      => /\ results[i].rule_label = GroupOrder[k]
                         /\ results[i].rule_fit = BaseConf[GroupOrder[k]]
            /\ (ArchPatterns.canary \cap Txt(items[i]) # {}
                /\ ArchPatterns.outlier \cap Txt(items[i]) # {})
                  => results[i].rule_label = "canary"

\* C12 witness: a text matching a canary and an outlier pattern was
\* classified, and so was a text matching no group.
C12_Witness ==
    /\ pc = "classified"
    /\ \E i \in Answered :
          /\ ArchPatterns.canary \cap Txt(items[i]) # {}
          /\ ArchPatterns.outlier \cap Txt(items[i]) # {}
          /\ results[i].rule_label = "canary"
    /\ \E i \in Answered :
          /\ MatchingGroups(items[i]) = {}
          /\ results[i].rule_fit = 250

\* C13: for every item whose rule confidence is below the rule threshold
\* ensemble_archetype returns without raising: the judge's label when it
\* answers validly, otherwise the rule label and rule confidence, whatever
\* the judge service does (no key, error, unparseable output, abstention).
C13_JudgeNeverBlocks ==
    pc \in {"classify", "classified"} =>
    \A i \in Answered :
        BelowRuleThreshold(i) =>
            /\ ~results[i].raised
            /\ IF JudgeValid
               THEN results[i].label = JudgeAnswer.label
               ELSE /\ results[i].label = results[i].rule_label
                    /\ results[i].fit = results[i].rule_fit

\* C14: at or above tau_rules (0.7, inclusive) the rule label is returned
\* and the judge is not consulted; below it the judge's label is used if and
\* only if it is a valid label with confidence >= tau_llm (0.6, inclusive),
\* and the rule label is returned in every other case.
C14_DecisionRule ==
    pc \in {"classify", "classified"} =>
    \A i \in Answered :
        IF ~BelowRuleThreshold(i)
        THEN /\ results[i].used = "rules"
             /\ results[i].label = results[i].rule_label
        ELSE /\ results[i].used \in {"llm", "fallback"}
             /\ results[i].used = "llm" <=> JudgeValid
             /\ results[i].used = "llm" =>
                   /\ results[i].label = JudgeAnswer.label
                   /\ results[i].fit = JudgeAnswer.confidence * 5
             /\ results[i].used = "fallback" =>
                   results[i].label = results[i].rule_label

\* C15: the external judge is called at most once per distinct triple, and
\* every later request for a triple already sent to the judge is answered
\* from the cache with the same label and confidence, whatever was
\* classified in between.
C15_Memoized ==
    pc \in {"classify", "classified"} =>
    /\ \A a, b \in 1..Len(calls) : calls[a] = calls[b] => a = b
    /\ \A i, j \in Answered :
          (/\ i < j
           /\ Triple(items[i]) = Triple(items[j])
           /\ BelowRuleThreshold(i))
              => /\ results[j].hit
                 /\ ~results[j].raised
                 /\ results[j].label = results[i].label
                 /\ results[j].fit = results[i].fit

----------------------------------------------------------------------------
(* Scoring: cli.py build_rows with scoring.py and classifiers.py.  Inside   *)
(* build_rows a sub-score is an integer number of six-hundredths (3000 is   *)
(* 5.0), which holds days / 6.0 and hits / 3.0 exactly; the row stores the   *)
(* scores rounded to hundredths.                                           *)

MaxBatch == 3       \* longest batch handed to build_rows

Five == 3000        \* 5.0 in six-hundredths

\* round(x, 2) of n / d hundredths, n >= 0
RoundDiv(n, d) == (2 * n + d) \div (2 * d)

\* cfg["topic_lattice"]: missions and their terms, in the order of the file
SampleLattice ==
    << [mission |-> "ASF", terms |-> {"food", "diet"}],
       [mission |-> "AHL", terms |-> {"housing", "patients", "cohort"}],
       [mission |-> "AFS", terms |-> {"energy"}] >>

\* classifiers.py 7-11: the number of terms of entry k found in the text
TermHits(txt, lattice, k) == Cardinality(lattice[k].terms \cap txt)

\* classifiers.py 12: max(scores, key=scores.get) is the first best entry
BestEntry(txt, lattice) ==
    CHOOSE k \in 1..Len(lattice) :
        /\ \A j \in 1..Len(lattice) :
              TermHits(txt, lattice, j) <= TermHits(txt, lattice, k)
        /\ \A j \in 1..(k - 1) :
              TermHits(txt, lattice, j) < TermHits(txt, lattice, k)

\* classifiers.py 5-15: mission_relevance; rel = min(5.0, hits / 3.0 * 5.0)
mission_relevance(txt, lattice) ==
    LET k == BestEntry(txt, lattice)
    IN  [mission |-> lattice[k].mission,
         rel |-> Min2(Five, 1000 * TermHits(txt, lattice, k))]

DataTerms ==
    {"randomized", "randomised", "cohort", "dataset", "preprint", "doi:",
     "method", "confidence interval"}

\* has_data_terms blind to every marker
HasDataNever(text) == FALSE

\* scoring.py 9-10
has_data_terms(text) == DataTerms \cap text # {}

\* scoring.py 5-7 without the cap
CredibilityUncapped(tier, source_weights, has_data) ==
    LET base == IF tier \in DOMAIN source_weights
                THEN source_weights[tier] ELSE 50
    IN  30 * base + (IF has_data THEN 300 ELSE 0)

\* scoring.py 5-7: weights are in hundredths, 5.0 * base is 30 * base
credibility(tier, source_weights, has_data) ==
    LET base == IF tier \in DOMAIN source_weights
                THEN source_weights[tier] ELSE 50
    IN  Min2(Five, 30 * base + (IF has_data THEN 300 ELSE 0))

RECURSIVE BestRatio(_, _, _)
\* scoring.py 14: max(token_set_ratio(title, t) for t in prior_titles)
BestRatio(title, prior_titles, i) ==
    IF i > Len(prior_titles) THEN <<0, 1>>
    ELSE RatioMax(TokenSetRatio(title, prior_titles[i]),
                  BestRatio(title, prior_titles, i + 1))

\* scoring.py 12-15
novelty(title, prior_titles) ==
    IF prior_titles = <<>> THEN Five
    ELSE LET best == BestRatio(title, prior_titles, 1)
         IN  Max2(0, Five - (30 * best[1]) \div best[2])

\* cli.py 17-27 and 54: the days the recency is computed from.  Without
\* pandas an unparseable date coerces to None and counts as 999 days.  With
\* pandas it coerces to NaT, which is not None; (run_dt - NaT).days is nan
\* and max(1, nan) is 1
DaysOf(d, e) ==
    IF d.parses THEN Max2(1, d.age)
    ELSE IF e.pandas THEN 1
    ELSE Max2(1, 999)

\* recency with the floor of one day left out
RecencyNoFloor(d, e) ==
    LET days == IF d.parses THEN d.age ELSE IF e.pandas THEN 1 ELSE 999
    IN  Max2(0, Five - Min2(Five, 100 * days))

\* cli.py 54-55: max(0.0, 5.0 - min(5.0, days / 6.0))
Recency(d, e) == Max2(0, Five - Min2(Five, 100 * DaysOf(d, e)))

\* the nudge bonuses and score weights of a configuration, in hundredths
SampleNudges ==
    { [outlier_novelty_bonus |-> 0, canary_cred_bonus |-> 0, field_fit_bonus |-> 0],
      [outlier_novelty_bonus |-> 50, canary_cred_bonus |-> 30, field_fit_bonus |-> 50],
      [outlier_novelty_bonus |-> 500, canary_cred_bonus |-> 200, field_fit_bonus |-> 150] }

SampleSourceWeights ==
    { [policy |-> 80, trade |-> 60, academic |-> 100],
      [policy |-> 100, trade |-> 0, academic |-> 70] }

SampleWeights ==
    [relevance |-> 35, credibility |-> 25, novelty |-> 20, archetype |-> 15,
     recency_bonus |-> 5]

SampleRowCfgs ==
    { [topic_lattice |-> SampleLattice, source_weights |-> sw,
       archetype_patterns |-> ArchPatterns, archetype_nudges |-> n,
       weights |-> SampleWeights] :
          sw \in SampleSourceWeights, n \in SampleNudges }

\* the total taken before the nudges are applied
BuildRowBodyNudgeLate(it, prior_titles, c, e, st) ==
    LET mr    == mission_relevance(Txt(it), c.topic_lattice)
        cred0 == credibility(it.tier, c.source_weights, has_data_terms(it.summary))
        nov0  == novelty(it.title, prior_titles)
        rule  == classify_archetype_rules(it, c.archetype_patterns)
        ens   == ensemble_archetype(st, it, rule[1], rule[2] \div 5, e)
        arch  == ens.label
        nov   == IF arch = "outlier"
                 THEN Min2(Five, nov0 + 6 * c.archetype_nudges.outlier_novelty_bonus)
                 ELSE nov0
        cred  == IF arch = "canary"
                 THEN Min2(Five, cred0 + 6 * c.archetype_nudges.canary_cred_bonus)
                 ELSE cred0
        a_fit == IF arch = "insights_from_field" /\ FieldSources \cap it.source # {}
                 THEN Min2(Five, 6 * ens.fit + 6 * c.archetype_nudges.field_fit_bonus)
                 ELSE 6 * ens.fit
        rec   == Recency(it.date, e)
        w     == c.weights
        total == RoundDiv(w.relevance * mr.rel + w.credibility * cred0
                          + w.novelty * nov0 + w.archetype * 6 * ens.fit
                          + w.recency_bonus * rec, 600)
    IN  [raised |-> ens.raised, cache |-> ens.cache, calls |-> ens.calls,
         row |-> [source_url |-> it.url,
                  mission_links |-> mr.mission,
                  archetype |-> arch,
                  credibility |-> RoundDiv(cred, 6),
                  relevance |-> RoundDiv(mr.rel, 6),
                  novelty |-> RoundDiv(nov, 6),
                  archetype_fit |-> RoundDiv(a_fit, 6),
                  score_recency |-> RoundDiv(rec, 6),
                  total_score |-> total]]

\* cli.py 36-76: the body of the loop of build_rows for item it.  st is the
\* judge's [cache, calls]; the result is the row, or raised when the
\* ensemble raised
BuildRowBody(it, prior_titles, c, e, st) ==
    LET mr    == mission_relevance(Txt(it), c.topic_lattice)
        cred0 == credibility(it.tier, c.source_weights, has_data_terms(it.summary))
        nov0  == novelty(it.title, prior_titles)
        rule  == classify_archetype_rules(it, c.archetype_patterns)
        ens   == ensemble_archetype(st, it, rule[1], rule[2] \div 5, e)
        arch  == ens.label
        nov   == IF arch = "outlier"
                 THEN Min2(Five, nov0 + 6 * c.archetype_nudges.outlier_novelty_bonus)
                 ELSE nov0
        cred  == IF arch = "canary"
                 THEN Min2(Five, cred0 + 6 * c.archetype_nudges.canary_cred_bonus)
                 ELSE cred0
        a_fit == IF arch = "insights_from_field" /\ FieldSources \cap it.source # {}
                 THEN Min2(Five, 6 * ens.fit + 6 * c.archetype_nudges.field_fit_bonus)
                 ELSE 6 * ens.fit
        rec   == Recency(it.date, e)
        w     == c.weights
        total == RoundDiv(w.relevance * mr.rel + w.credibility * cred
                          + w.novelty * nov + w.archetype * a_fit
                          + w.recency_bonus * rec, 600)
    IN  [raised |-> ens.raised, cache |-> ens.cache, calls |-> ens.calls,
         row |-> [source_url |-> it.url,
                  mission_links |-> mr.mission,
                  archetype |-> arch,
                  credibility |-> RoundDiv(cred, 6),
                  relevance |-> RoundDiv(mr.rel, 6),
                  novelty |-> RoundDiv(nov, 6),
                  archetype_fit |-> RoundDiv(a_fit, 6),
                  score_recency |-> RoundDiv(rec, 6),
                  total_score |-> total]]

\* only the first title of the batch is compared against
PriorTitlesFirstOnly(its) == [i \in 1..Min2(1, Len(its)) |-> its[i].title]

\* cli.py 33: prior_titles = [it["title"] for it in items]
PriorTitles(its) == [i \in 1..Len(its) |-> its[i].title]

\* the builds the pipeline runs on: with or without pandas, no judge key
SampleBuilds ==
    { [pandas |-> p, api_key |-> FALSE, reply |-> AbstainJson] : p \in BOOLEAN }

InitRows ==
    /\ pc = "build"
    /\ items \in DistinctSeqs(SampleRItems, MaxBatch)
    /\ cfg \in SampleRowCfgs
    /\ env \in SampleBuilds
    /\ idx = 1
    /\ rows = <<>>
    /\ results = <<>>
    /\ cache = <<>>
    /\ calls = <<>>
    /\ DedupeIdle
    /\ ShortlistCapIdle

\* one iteration of the for loop of build_rows that appends its row
BuildRow ==
    /\ pc = "build"
    /\ idx <= Len(items)
    /\ LET r == BuildRowBody(items[idx], PriorTitles(items), cfg, env,
                             [cache |-> cache, calls |-> calls])
       IN  /\ ~r.raised
           /\ rows' = Append(rows, r.row)
           /\ cache' = r.cache
           /\ calls' = r.calls
    /\ idx' = idx + 1
    /\ UNCHANGED <<pc, cfg, env, results, items, rows_sorted, out, used,
                   have_arch, capVars, collected, seen_urls, seen_titles,
                   seen_hashes, uniq, pass>>

\* an iteration in which the ensemble raises: the exception leaves
\* build_rows, and the rows built so far are lost with it
BuildRaise ==
    /\ pc = "build"
    /\ idx <= Len(items)
    /\ BuildRowBody(items[idx], PriorTitles(items), cfg, env,
                    [cache |-> cache, calls |-> calls]).raised
    /\ rows' = <<>>
    /\ pc' = "raised"
    /\ UNCHANGED <<cfg, env, results, cache, calls, items, idx, rows_sorted,
                   out, used, have_arch, capVars, collected, seen_urls,
                   seen_titles, seen_hashes, uniq, pass>>

\* cli.py 77: return rows
BuildReturn ==
    /\ pc = "build"
    /\ idx > Len(items)
    /\ pc' = "built"
    /\ UNCHANGED <<slVars, ddVars, capVars, jVars>>

NextRows == BuildRow \/ BuildRaise \/ BuildReturn

SpecRows == InitRows /\ [][NextRows]_vars

----------------------------------------------------------------------------
(* Properties of the scored rows *)

\* the rows appended so far; row i was built from items[i]
Built == 1..Len(rows)

SubScores(r) ==
    {r.relevance, r.credibility, r.novelty, r.archetype_fit, r.score_recency}

\* tier weights in [0, 1] and non-negative nudge bonuses
SaneCfg ==
    /\ \A t \in DOMAIN cfg.source_weights :
          cfg.source_weights[t] \in 0..100
    /\ cfg.archetype_nudges.outlier_novelty_bonus >= 0
    /\ cfg.archetype_nudges.canary_cred_bonus >= 0
    /\ cfg.archetype_nudges.field_fit_bonus >= 0

\* C11: under a configuration with tier weights in [0, 1] and non-negative
\* nudge bonuses, each of the five sub-scores of every row built by
\* build_rows lies in [0, 5], the nudged ones included.
C11_ScoreBounds ==
    (pc \in {"build", "built"} /\ SaneCfg) =>
    \A i \in Built : \A x \in SubScores(rows[i]) : 0 <= x /\ x <= 500

\* C11 witness: a canary row whose credibility with the bonus would pass
\* 5.0 and an outlier row with a novelty bonus of 5.0 were built.
C11_Witness ==
    /\ pc = "built"
    /\ SaneCfg
    /\ \E i \in Built :
          /\ rows[i].archetype = "canary"
          /\ credibility(items[i].tier, cfg.source_weights,
                         has_data_terms(items[i].summary))
                 + 6 * cfg.archetype_nudges.canary_cred_bonus > Five
          /\ rows[i].credibility = 500
    /\ \E i \in Built :
          /\ rows[i].archetype = "outlier"
          /\ cfg.archetype_nudges.outlier_novelty_bonus = 500
          /\ rows[i].novelty = 500

\* item i is the scenario of C17: tier policy at weight 0.8, a data marker
\* in the summary, and no canary bonus added to the credibility
CredScenario(i) ==
    /\ items[i].tier = "policy"
    /\ cfg.source_weights.policy = 80
    /\ DataTerms \cap items[i].summary # {}
    /\ (rows[i].archetype # "canary"
        \/ cfg.archetype_nudges.canary_cred_bonus = 0)

\* C17 as stated: a policy item at tier weight 0.8 whose summary holds a
\* data marker has credibility 5.0.
C17_Original ==
    pc \in {"build", "built"} =>
    \A i \in Built : CredScenario(i) => rows[i].credibility = 500

\* C17 amended: that item has credibility 4.5, which is 5 x 0.8 + 0.5 and
\* below the cap.
C17_CredibilityScenario ==
    pc \in {"build", "built"} =>
    \A i \in Built : CredScenario(i) => rows[i].credibility = 450

\* C17 witness: the row of such an item was built.
C17_Witness ==
    /\ pc = "built"
    /\ \E i \in Built :
          /\ CredScenario(i)
          /\ "randomised" \in items[i].summary
          /\ rows[i].credibility = 450

\* the largest recency build_rows gives: 5 - 1/6, rounded
TopRecency == 483

\* recency is non-increasing in the age in whole days, and 0.0 from 30 days
RecencyDecays ==
    /\ \A i, j \in Built :
          (/\ items[i].date.parses
           /\ items[j].date.parses
           /\ items[i].date.age <= items[j].date.age)
              => rows[i].score_recency >= rows[j].score_recency
    /\ \A i \in Built :
          (items[i].date.parses /\ items[i].date.age >= 30)
              => rows[i].score_recency = 0

\* C18 as stated: recency is non-increasing in the age in whole days, it is
\* 5.0 exactly for the items of the first day, and it is 0.0 for an item
\* dated 30 or more days before run time.
C18_Original ==
    pc \in {"build", "built"} =>
    /\ RecencyDecays
    /\ \A i \in Built :
          items[i].date.parses =>
              (rows[i].score_recency = 500 <=> items[i].date.age = 0)

\* C18 amended: recency is non-increasing in the age in whole days, it never
\* exceeds 4.83, which is the recency of exactly the items less than two
\* whole days old (future dates included), and it is 0.0 for an item dated
\* 30 or more days before run time.
C18_RecencyDecay ==
    pc \in {"build", "built"} =>
    /\ RecencyDecays
    /\ \A i \in Built :
          /\ rows[i].score_recency <= TopRecency
          /\ items[i].date.parses =>
                (rows[i].score_recency = TopRecency <=> items[i].date.age <= 1)

\* C18 witness: rows of a same-day item, a 29-day-old
\* item and a 30-day-old item of one batch show the decay.
C18_Witness ==
    /\ pc = "built"
    /\ \E i, j, k \in Built :
          /\ items[i].date = Aged(0) /\ rows[i].score_recency = TopRecency
          /\ items[j].date = Aged(29) /\ rows[j].score_recency = 17
          /\ items[k].date = Aged(30) /\ rows[k].score_recency = 0

\* C19: an item whose date does not parse counts as 999 days old: its row
\* is emitted with recency 0.0 and build_rows does not abort on it.
C19_UnparseableDate ==
    /\ pc \in {"build", "built"} =>
          \A i \in Built :
              ~items[i].date.parses => rows[i].score_recency = 0
    /\ pc = "raised" => items[idx].date.parses

----------------------------------------------------------------------------
(* Failure isolation of the deduplicator *)

Malformed(its) == {i \in 1..Len(its) : its[i].summary # "str"}

\* C16: a failure while fingerprinting or language-detecting one item is
\* caught locally: dedupe does not raise on a batch with one malformed item
\* (its summary missing or not a string), and it goes on to the end of the
\* batch.
C16_FailureIsolated ==
    Cardinality(Malformed(collected)) <= 1 =>
        /\ pc # "raised"
        /\ pc = "deduped" => idx > Len(items)

----------------------------------------------------------------------------
(* The brief summary: classifiers.py brief_summary_from.  A string is the   *)
(* sequence of its whitespace-separated words; "w" is a word, "," a word    *)
(* made of commas only, "." the lone full stop left by an empty part.       *)

MaxTitleWords == 30      \* longest title, in words
MaxSentenceWords == 30   \* longest first sentence of a summary, in words

WordLimit == 28          \* words[:28]

\* five patterns, each matching at most two words ("systematic review")
MaxBitWords == 9

Words(n, commas) == [i \in 1..n |-> IF i \in commas THEN "," ELSE "w"]

\* f"{t}." : the full stop joins the last word, or stands alone
WithStop(ws) ==
    IF ws = <<>> THEN <<".">>
    ELSE SubSeq(ws, 1, Len(ws) - 1) \o <<"w">>

\* " ".join(words[:n]).rstrip(",") + "...": the dots join the last word
\* kept, or stand alone after a last word that was all commas
CutAt(words, n) ==
    IF words[n] = ","
    THEN SubSeq(words, 1, n - 1) \o <<"...">>
    ELSE SubSeq(words, 1, n - 1) \o <<"w...">>

\* the summary that cuts after one word more
BriefSummaryCutLate(inp) ==
    LET sent1 == WithStop(inp.title) \o WithStop(inp.bits)
        sent  == IF Len(sent1) <= 2
                 THEN WithStop(inp.title) \o inp.first
                 ELSE sent1
    IN  IF Len(sent) > WordLimit + 1 THEN CutAt(sent, WordLimit + 1) ELSE sent

\* classifiers.py 33-43.  inp.title is the title, inp.bits the matches of
\* the five patterns in the summary, inp.first the summary's first sentence
brief_summary_from(inp) ==
    LET sent1 == WithStop(inp.title) \o WithStop(inp.bits)
        sent  == IF Len(sent1) <= 2
                 THEN WithStop(inp.title) \o inp.first
                 ELSE sent1
    IN  IF Len(sent) > WordLimit THEN CutAt(sent, WordLimit) ELSE sent

\* titles and summaries by length, with a comma-only word where the cut falls
SampleTexts ==
    { [title |-> Words(tw, cs), bits |-> Words(bw, {}), first |-> Words(fw, {})] :
          tw \in 0..MaxTitleWords, cs \in {{}, {WordLimit}, {WordLimit - 1, WordLimit}},
          bw \in 0..MaxBitWords, fw \in 0..MaxSentenceWords }

InitSummary ==
    /\ pc = "summarise"
    /\ items \in { <<t>> : t \in { x \in SampleTexts : x.bits # <<>> => x.first # <<>> } }
    /\ results = <<>>
    /\ idx = 0
    /\ env = NoEnv
    /\ cache = <<>>
    /\ calls = <<>>
    /\ rows = <<>>
    /\ cfg = [daily_top_n |-> 0, ensure_archetype_diversity |-> 0,
              ensure_mission_coverage |-> TRUE]
    /\ DedupeIdle
    /\ ShortlistCapIdle

\* cli.py 65: brief_summary_from(title, summary)
Summarise ==
    /\ pc = "summarise"
    /\ results' = <<brief_summary_from(items[1])>>
    /\ pc' = "summarised"
    /\ UNCHANGED <<slVars, ddVars, capVars, env, cache, calls>>

NextSummary == Summarise

SpecSummary == InitSummary /\ [][NextSummary]_vars

\* C20: for every title and summary the string returned by
\* brief_summary_from has at most 28 whitespace-separated words.
C20_AtMost28Words ==
    pc = "summarised" => Len(results[1]) <= 28

\* C20 witness: a title of more than 28 words with an empty summary was cut
\* to 28 words, the last one carrying the dots.
C20_Witness ==
    /\ pc = "summarised"
    /\ Len(items[1].title) > 28
    /\ items[1].first = <<>>
    /\ Len(results[1]) = 28
    /\ results[1][28] = "w..."

----------------------------------------------------------------------------
(* Further properties of the shortlist selector *)

\* the position of row r in the sequence rs of pairwise different rows
PosIn(r, rs) == CHOOSE i \in 1..Len(rs) : rs[i] = r

\* rows_sorted holds the rows by descending total_score, rows of equal
\* score in their input order
StableSorted ==
    /\ Len(rows_sorted) = Len(rows)
    /\ Range(rows_sorted) = Range(rows)
    /\ \A i, j \in 1..Len(rows_sorted) :
          i < j =>
              \/ rows_sorted[i].total_score > rows_sorted[j].total_score
              \/ /\ rows_sorted[i].total_score = rows_sorted[j].total_score
                 /\ PosIn(rows_sorted[i], rows) < PosIn(rows_sorted[j], rows)

\* a comes before b in the input and has the same total_score
TiedBefore(a, b) ==
    /\ a.total_score = b.total_score
    /\ PosIn(a, rows) < PosIn(b, rows)

\* the rows accepted before row b was
OutBefore(b) == SubSeq(out, 1, PosIn(b, out) - 1)

\* C25: the rows are walked by descending total_score with ties in input
\* order; of two rows of equal score the diversity phase never accepts the
\* later one while passing over the earlier one, unless the earlier one was
\* ineligible when visited (its URL used, or its archetype barred), and it
\* accepts the earlier one first when it accepts both.
C25_StableOrder ==
    pc \in {"coverage", "fill", "returned"} =>
    /\ StableSorted
    /\ pc = "coverage" =>
          \A a, b \in Range(rows) :
              (TiedBefore(a, b) /\ b \in Range(out)) =>
                  IF a \in Range(out)
                  THEN PosIn(a, out) < PosIn(b, out)
                  ELSE \/ a.source_url \in UrlsOf(OutBefore(b))
                       \/ a.archetype \in ArchetypesOf(OutBefore(b))

\* C25 witness: two rows of equal score and unused URLs competed for the
\* last slot of the diversity phase, and the earlier one of the input got it
\* although it was handed in after a lower-scored row.
C25_Witness ==
    /\ pc = "coverage"
    /\ Len(out) > 0
    /\ Len(out) = cfg.daily_top_n
    /\ \E a, b \in Range(rows) :
          /\ TiedBefore(a, b)
          /\ a = out[Len(out)]
          /\ b \notin Range(out)
          /\ b.source_url \notin used
          /\ b.archetype \notin have_arch
          /\ PosIn(a, rows) > 1

MissionIndex(m) == CHOOSE k \in 1..Len(MissionOrder) : MissionOrder[k] = m

\* what one run of the coverage phase does to the accepted list
CoverageStep ==
    (pc = "coverage" /\ pc' = "fill") =>
    IF ~cfg.ensure_mission_coverage THEN out' = out
    ELSE LET n == Len(out' ) - Len(out)
             before(k) == SubSeq(out', 1, Len(out) + k - 1)
             added(k) == out'[Len(out) + k]
         IN  /\ n >= 0
             /\ SubSeq(out', 1, Len(out)) = out
             /\ \A k \in 1..n :
                   /\ Len(before(k)) < cfg.daily_top_n
                   /\ added(k).mission_links \in AllMissions \ MissionsOf(before(k))
                   /\ added(k).source_url \notin UrlsOf(before(k))
                   /\ \A x \in Range(rows) :
                         (/\ x.mission_links = added(k).mission_links
                          /\ x.source_url \notin UrlsOf(before(k)))
                             => x.total_score <= added(k).total_score
                   /\ \A j \in 1..(k - 1) :
                         MissionIndex(added(j).mission_links)
                             < MissionIndex(added(k).mission_links)
             /\ \/ Len(out') >= cfg.daily_top_n
                \/ \A m \in AllMissions :
                      (\E x \in Range(rows) :
                          x.mission_links = m /\ x.source_url \notin UrlsOf(out'))
                          => m \in MissionsOf(out')

\* C26: the enabled coverage phase visits ASF, AHL, AFS in that order and,
\* for each mission not yet represented while fewer than N rows are
\* accepted, appends the highest-scoring row of that mission whose URL is
\* unused; when it ends N rows are accepted or every mission with an
\* unused-URL row in the pool is represented.  Disabled, it accepts nothing.
C26_CoveragePhase == [][CoverageStep]_vars

\* C26 witness: with ASF already represented the coverage phase appended a
\* row for AHL, found no row for AFS, and left room in the list.
C26_Witness ==
    /\ pc = "fill"
    /\ cfg.ensure_mission_coverage
    /\ "ASF" \in MissionsOf(AfterDiversity)
    /\ Len(out) = Len(AfterDiversity) + 1
    /\ out[Len(out)].mission_links = "AHL"
    /\ "AFS" \notin MissionsOf(out)
    /\ Len(out) < cfg.daily_top_n

\* C29: the shortlist has exactly min(N, number of distinct source_urls of
\* the rows) rows, whatever the diversity target and the coverage switch.
C29_ExactSize ==
    pc = "returned" =>
        Len(out) = Min2(cfg.daily_top_n, Cardinality(UrlsOf(rows)))

\* C29 witness: the diversity phase passed over a row for repeating an
\* archetype, a later phase accepted it, and the list is shorter than N
\* because the pool has no more distinct URLs.
C29_Witness ==
    /\ pc = "returned"
    /\ cfg.ensure_archetype_diversity > 0
    /\ \E i \in 1..Len(out) :
          /\ out[i] \notin Range(AfterDiversity)
          /\ out[i].archetype \in ArchetypesOf(AfterDiversity)
    /\ Cardinality(UrlsOf(rows)) < Len(rows)
    /\ Len(out) = Cardinality(UrlsOf(rows))
    /\ Len(out) < cfg.daily_top_n

----------------------------------------------------------------------------
(* Further properties of the deduplicator *)

\* the number of bit positions in which x and y differ
RECURSIVE Hamming(_, _)
Hamming(x, y) ==
    IF x = 0 /\ y = 0 THEN 0
    ELSE (IF x % 2 # y % 2 THEN 1 ELSE 0) + Hamming(x \div 2, y \div 2)

\* items[j] reached the fingerprint test and was compared with the accepted
\* items[i]
Compared(j, i) ==
    /\ i < j
    /\ j < idx
    /\ Kept(items[i])
    /\ items[i].summary \in {"str", "none"}
    /\ items[j].summary \in {"str", "none"}
    /\ \A k \in 1..(j - 1) : Kept(items[k]) => items[k].url # items[j].url

\* C23: the verdict of the fingerprint test depends only on the Hamming
\* distance of the two fingerprints: two compared pairs at the same Hamming
\* distance are both judged near or both judged apart.
C23_HammingOnly ==
    pc \in {"dedupe", "deduped"} =>
    \A j1, i1, j2, i2 \in 1..Len(items) :
        (/\ Compared(j1, i1)
         /\ Compared(j2, i2)
         /\ Hamming(simhash_text(items[j1]), simhash_text(items[i1]))
               = Hamming(simhash_text(items[j2]), simhash_text(items[i2])))
            => (HashesNear(items[j1], items[i1]) <=> HashesNear(items[j2], items[i2]))

Titles(its) == [i \in 1..Len(its) |-> its[i].title]
Hashes(its) == [i \in 1..Len(its) |-> simhash_text(its[i])]

\* items[j] was examined and not accepted
Dropped(j) == j < idx /\ ~Kept(items[j])

\* C28: the seen URLs, titles and fingerprints are exactly those of the
\* accepted items, so an item dropped as a duplicate or as non-English
\* leaves no trace: every dropped item repeats the URL of, or resembles, an
\* item accepted before it, or is not English.
C28_SeenIsAccepted ==
    pc \in {"dedupe", "deduped"} =>
    /\ seen_urls = {uniq[i].url : i \in 1..Len(uniq)}
    /\ seen_titles = Titles(uniq)
    /\ seen_hashes = Hashes(uniq)
    /\ \A j \in 1..Len(items) :
          Dropped(j) =>
              \/ ~is_english(items[j])
              \/ \E i \in 1..(j - 1) :
                    /\ Kept(items[i])
                    /\ \/ items[i].url = items[j].url
                       \/ TitlesSimilar(items[j], items[i])
                       \/ HashesNear(items[j], items[i])

\* C28 witness: a non-English item was dropped and a later item with the
\* same title, and another with the same URL, were accepted.
C28_Witness ==
    /\ pc = "deduped"
    /\ pass = 1
    /\ \E j, k \in 1..Len(items) :
          /\ j < k
          /\ ~is_english(items[j])
          /\ ~Kept(items[j])
          /\ items[k].title = items[j].title
          /\ Kept(items[k])
    /\ \E j, l \in 1..Len(items) :
          /\ j < l
          /\ ~is_english(items[j])
          /\ ~Kept(items[j])
          /\ items[l].url = items[j].url
          /\ Kept(items[l])

----------------------------------------------------------------------------
(* Further properties of the archetype classification *)

\* request i left the rules-only path: ensemble_archetype called the judge
Consulted(i) == results[i].used # "rules"

\* C30: with the default thresholds the judge is consulted for an item if
\* and only if no pattern group matched it (rule confidence 2.5); a
\* confidence of 3.5, 4.0 or 4.5 is at least 0.7 on the 0-1 scale, takes the
\* rules-only path, and the rule label is returned unchanged.
C30_ConsultedIffNoMatch ==
    pc \in {"classify", "classified"} =>
    \A i \in Answered :
        /\ Consulted(i) <=> MatchingGroups(items[i]) = {}
        /\ Consulted(i) <=> results[i].rule_fit = 250
        /\ MatchingGroups(items[i]) # {} =>
              /\ results[i].rule_fit \in {350, 400, 450}
              /\ ~results[i].raised
              /\ results[i].label = results[i].rule_label
              /\ results[i].fit = results[i].rule_fit

\* C30 witness: under a judge that answers canary at 0.6, a big_idea at 3.5,
\* exactly on the threshold, kept its rule label, and an item matching no
\* group was sent to the judge.
C30_Witness ==
    /\ pc = "classified"
    /\ env.api_key
    /\ JudgeValid
    /\ \E i \in Answered :
          /\ results[i].rule_fit = 350
          /\ results[i].used = "rules"
          /\ results[i].label = "big_idea"
    /\ \E i \in Answered :
          /\ MatchingGroups(items[i]) = {}
          /\ Consulted(i)

----------------------------------------------------------------------------
(* Further properties of the scored rows *)

\* the sub-scores of item i before the nudges, in six-hundredths
PreCred(i) ==
    credibility(items[i].tier, cfg.source_weights, has_data_terms(items[i].summary))
PreNov(i) == novelty(items[i].title, PriorTitles(items))
PreFit(i) == 6 * classify_archetype_rules(items[i], cfg.archetype_patterns)[2]
PreRel(i) == mission_relevance(Txt(items[i]), cfg.topic_lattice).rel

\* a score with its bonus (in hundredths) added once and capped at 5.0
Nudged(x, bonus) == Min2(Five, x + 6 * bonus)

\* the nudged sub-scores the final archetype of row i selects
NudgedNov(i) ==
    IF rows[i].archetype = "outlier"
    THEN Nudged(PreNov(i), cfg.archetype_nudges.outlier_novelty_bonus)
    ELSE PreNov(i)
NudgedCred(i) ==
    IF rows[i].archetype = "canary"
    THEN Nudged(PreCred(i), cfg.archetype_nudges.canary_cred_bonus)
    ELSE PreCred(i)
NudgedFit(i) ==
    IF rows[i].archetype = "insights_from_field"
       /\ FieldSources \cap items[i].source # {}
    THEN Nudged(PreFit(i), cfg.archetype_nudges.field_fit_bonus)
    ELSE PreFit(i)

\* C24: each nudge is applied at most once, selected by the final archetype
\* (outlier: novelty, canary: credibility, insights_from_field from a field
\* source: archetype fit) and capped at 5.0; relevance and recency are not
\* changed; the row stores the nudged values and its total is the weighted
\* sum of the nudged values.
C24_Nudges ==
    pc \in {"build", "built"} =>
    \A i \in Built :
        /\ rows[i].novelty = RoundDiv(NudgedNov(i), 6)
        /\ rows[i].credibility = RoundDiv(NudgedCred(i), 6)
        /\ rows[i].archetype_fit = RoundDiv(NudgedFit(i), 6)
        /\ rows[i].relevance = RoundDiv(PreRel(i), 6)
        /\ rows[i].score_recency = RoundDiv(Recency(items[i].date, env), 6)
        /\ rows[i].total_score =
              RoundDiv(cfg.weights.relevance * PreRel(i)
                       + cfg.weights.credibility * NudgedCred(i)
                       + cfg.weights.novelty * NudgedNov(i)
                       + cfg.weights.archetype * NudgedFit(i)
                       + cfg.weights.recency_bonus * Recency(items[i].date, env),
                       600)

\* C24 witness: a batch with a canary, an outlier and a field-source row,
\* each nudged, the field one up to the cap.
C24_Witness ==
    /\ pc = "built"
    /\ cfg.archetype_nudges.field_fit_bonus = 150
    /\ \E i, j, k \in Built :
          /\ rows[i].archetype = "canary"
          /\ rows[i].credibility > RoundDiv(PreCred(i), 6)
          /\ rows[j].archetype = "outlier"
          /\ rows[j].novelty > RoundDiv(PreNov(j), 6)
          /\ rows[k].archetype = "insights_from_field"
          /\ rows[k].archetype_fit = 500

\* the title of item i has no similarity to the title of any other item
UnlikeOthers(i) ==
    \A j \in 1..Len(items) :
        j # i => TokenSetRatio(items[i].title, items[j].title)[1] = 0

\* no novelty bonus is added to row i
NoNoveltyNudge(i) ==
    rows[i].archetype # "outlier" \/ cfg.archetype_nudges.outlier_novelty_bonus = 0

BatchOrders(its) ==
    { p \in [1..Len(its) -> Range(its)] : Range(p) = Range(its) }

\* the row build_rows gives item it inside the batch p, from an empty cache
RowIn(it, p) ==
    BuildRowBody(it, PriorTitles(p), cfg, env, [cache |-> <<>>, calls |-> <<>>])

\* C21: scoring is per item and order-independent: when build_rows returns,
\* each item has the row it gets in every permutation of the batch, and a
\* batch on which build_rows raises raises in every permutation.
C21_OrderIndependent ==
    /\ pc = "built" =>
          \A p \in BatchOrders(items) : \A i \in Built :
              /\ ~RowIn(items[i], p).raised
              /\ RowIn(items[i], p).row = rows[i]
    /\ pc = "raised" =>
          \A p \in BatchOrders(items) : \E k \in 1..Len(p) : RowIn(p[k], p).raised

\* C21 witness: a batch of three items was scored, its rows differing in
\* mission, archetype and total.
C21_Witness ==
    /\ pc = "built"
    /\ Len(rows) = 3
    /\ rows[1].archetype # rows[2].archetype
    /\ rows[1].mission_links # rows[3].mission_links
    /\ rows[2].total_score # rows[3].total_score
    /\ rows[3].novelty > 0

----------------------------------------------------------------------------
(* Relevance scoring under a missing or empty topic lattice *)

\* the keyword workbook of the Excel-enhanced agent: core and extended terms
SampleMissions ==
    << [mission |-> "ASF", core |-> {"food"}, extended |-> {"diet"}],
       [mission |-> "AFS", core |-> {"energy"}, extended |-> {}],
       [mission |-> "AHL", core |-> {"housing", "patients"}, extended |-> {"cohort"}] >>

\* configurations: cfg without "topic_lattice" and a workbook without mission
\* sheets, an empty lattice, a one-mission lattice, and the full lattice
SampleRelCfgs ==
    { [has_lattice |-> FALSE, topic_lattice |-> <<>>, missions |-> <<>>],
      [has_lattice |-> TRUE, topic_lattice |-> <<>>, missions |-> <<>>],
      [has_lattice |-> TRUE, topic_lattice |-> SubSeq(SampleLattice, 1, 1),
       missions |-> SubSeq(SampleMissions, 1, 1)],
      [has_lattice |-> TRUE, topic_lattice |-> SampleLattice,
       missions |-> SampleMissions] }

RelWords == {"food", "diet", "housing", "cohort", "energy", "ward"}

\* cli.py 37: cfg["topic_lattice"] raises KeyError when the key is absent;
\* classifiers.py 12: max() of the empty scores dict raises ValueError
RelevanceCall(txt, c) ==
    IF ~c.has_lattice \/ c.topic_lattice = <<>>
    THEN [impl |-> "mission_relevance", raised |-> TRUE, mission |-> "", rel |-> 0]
    ELSE [impl |-> "mission_relevance", raised |-> FALSE,
          mission |-> mission_relevance(txt, c.topic_lattice).mission,
          rel |-> mission_relevance(txt, c.topic_lattice).rel]

\* signal_scout_excel_enhanced.py 268-283: 1.0 per core term found, 0.5 per
\* extended term found, in units of a third of five hundredths
WeightedHits(txt, missions, k) ==
    1000 * Cardinality(missions[k].core \cap txt)
    + 500 * Cardinality(missions[k].extended \cap txt)

\* signal_scout_excel_enhanced.py 284: the first mission of the best score
BestMission(txt, missions) ==
    CHOOSE k \in 1..Len(missions) :
        /\ \A j \in 1..Len(missions) :
              WeightedHits(txt, missions, j) <= WeightedHits(txt, missions, k)
        /\ \A j \in 1..(k - 1) :
              WeightedHits(txt, missions, j) < WeightedHits(txt, missions, k)

\* signal_scout_excel_enhanced.py 259-286: mission_relevance_weighted
mission_relevance_weighted(txt, missions) ==
    IF missions = <<>>
    THEN [impl |-> "mission_relevance_weighted", raised |-> FALSE,
          mission |-> "AHL", rel |-> 0]
    ELSE LET k == BestMission(txt, missions)
         IN  [impl |-> "mission_relevance_weighted", raised |-> FALSE,
              mission |-> missions[k].mission,
              rel |-> Min2(Five, WeightedHits(txt, missions, k))]

InitRelevance ==
    /\ pc = "relevance"
    /\ items \in { <<t>> : t \in SUBSET RelWords }
    /\ cfg \in SampleRelCfgs
    /\ results = <<>>
    /\ idx = 0
    /\ env = NoEnv
    /\ cache = <<>>
    /\ calls = <<>>
    /\ rows = <<>>
    /\ DedupeIdle
    /\ ShortlistCapIdle

\* build_rows of signal_scout.cli scores the relevance of the item
ScoreRelevance ==
    /\ pc = "relevance"
    /\ results' = <<RelevanceCall(items[1], cfg)>>
    /\ pc' = "scored"
    /\ UNCHANGED <<slVars, ddVars, capVars, env, cache, calls>>

\* build_rows of the Excel-enhanced agent scores the relevance of the item
ScoreWeighted ==
    /\ pc = "relevance"
    /\ results' = <<mission_relevance_weighted(items[1], cfg.missions)>>
    /\ pc' = "scored"
    /\ UNCHANGED <<slVars, ddVars, capVars, env, cache, calls>>

NextRelevance == ScoreRelevance \/ ScoreWeighted

SpecRelevance == InitRelevance /\ [][NextRelevance]_vars

\* the configuration gives the implementation that ran no topic at all
NoLattice ==
    IF results[1].impl = "mission_relevance"
    THEN ~cfg.has_lattice \/ cfg.topic_lattice = <<>>
    ELSE cfg.missions = <<>>

\* C22: when the topic lattice is absent or empty, relevance scoring signals
\* an error to its caller instead of returning a zero relevance, in both
\* mission_relevance and mission_relevance_weighted.
C22_ConfigError ==
    (pc = "scored" /\ NoLattice) => results[1].raised
====
